---------------------------- MODULE Spec2Model ----------------------------
(***************************************************************************)
(* Transcript acquisition pipeline.                                        *)
(*                                                                         *)
(*   transcript_tool.py        process_channel / download_and_save_transcript *)
(*   getlastesttranscript.py   process_videos (captions strategy only)     *)
(*   transcribe_audio.py       main (the staging adapter, run as a         *)
(*                             subprocess by the cloud strategy)           *)
(*   transcript_tool.py        combine_local_files, get_channel_videos and *)
(*                             slugify, each also on its own               *)
(*                                                                         *)
(* Strings are sequences of one-character strings; file names are          *)
(* sequences of such characters and of whole-suffix tokens.  Every         *)
(* external collaborator (title lookup, captions service, yt-dlp, whisper, *)
(* object storage, speech service, the file system) may fail: scen        *)
(* records, for the video being processed, the call that failed, if any,   *)
(* and the fragments the collaborator returned.                            *)
(***************************************************************************)
EXTENDS Integers, Sequences, FiniteSets, TLC

\* ------------------------------------------------------------- bounds
NumVideos == 2
\* the pages the upstream listing is followed over, and the identifiers a page holds
MaxPages == 3
MaxPageSize == 2
MaxInterrupts == 2
\* the longest title slugify is applied to
MaxTitleLen == 3

\* ------------------------------------------------------------ strings
LowerChars == {"a", "b", "c", "d", "e_acute"}
UpperChars == {"A", "B", "E_ACUTE"}
DigitChars == {"1"}
SpaceChars == {" ", "\t"}

\* \w of a Python 3 str pattern: Unicode letters, digits and the underscore
IsWordChar(c) == c \in LowerChars \cup UpperChars \cup DigitChars \cup {"_"}

IsSpaceChar(c) == c \in SpaceChars

\* str.lower() on one character
LowerChar(c) ==
    CASE c = "A" -> "a"
      [] c = "B" -> "b"
      [] c = "E_ACUTE" -> "e_acute"
      [] OTHER -> c

\* re.sub(r'[^\w\s-]', '', text)
StripSpecial(s) ==
    SelectSeq(s, LAMBDA c : IsWordChar(c) \/ IsSpaceChar(c) \/ c = "-")

IsSeparator(c) == IsSpaceChar(c) \/ c = ":"

RECURSIVE DropSeparators(_)
DropSeparators(s) ==
    IF s # <<>> /\ IsSeparator(Head(s)) THEN DropSeparators(Tail(s)) ELSE s

\* re.sub(r'[\s:]+', '_', text)
RECURSIVE CollapseSeparators(_)
CollapseSeparators(s) ==
    IF s = <<>> THEN <<>>
    ELSE IF IsSeparator(Head(s))
         THEN <<"_">> \o CollapseSeparators(DropSeparators(s))
         ELSE <<Head(s)>> \o CollapseSeparators(Tail(s))

LowerAll(s) == [i \in 1..Len(s) |-> LowerChar(s[i])]

RECURSIVE StripLeft(_)
StripLeft(s) ==
    IF s # <<>> /\ Head(s) = "_" THEN StripLeft(Tail(s)) ELSE s

RECURSIVE StripRight(_)
StripRight(s) ==
    IF s # <<>> /\ s[Len(s)] = "_" THEN StripRight(SubSeq(s, 1, Len(s) - 1)) ELSE s

\* str.strip('_')
StripUnderscores(s) == StripRight(StripLeft(s))

slugify(t) == StripUnderscores(LowerAll(CollapseSeparators(StripSpecial(t))))

\* " ".join(fragments)
RECURSIVE JoinSpace(_)
JoinSpace(frags) ==
    IF frags = <<>> THEN <<>>
    ELSE IF Len(frags) = 1 THEN frags[1]
    ELSE frags[1] \o <<" ">> \o JoinSpace(Tail(frags))

\* ------------------------------------------------- the videos of a channel
IdChars == <<"p", "q", "r", "s", "t">>

\* the identifier of the i-th upload: distinct tokens of one fixed length
VidOf(i) == <<IdChars[((i - 1) % 5) + 1], IdChars[(((i - 1) \div 5) % 5) + 1]>>

AllIds == [i \in 1..NumVideos |-> VidOf(i)]

Titles ==
    << <<"A", " ", "b">>,
       <<" ", "A", "\t", " ", "b", "!">>,
       <<"c", ":", "d", "_">> >>

\* yt.title of the i-th upload (the first two share a slug)
TitleOf(i) == Titles[((i - 1) % Len(Titles)) + 1]

\* f"{title}-{video_id}-transcript.txt"
derived_filename(title, vid) == title \o <<"-">> \o vid \o <<"-transcript.txt">>

Filename(i) == derived_filename(slugify(TitleOf(i)), VidOf(i))

\* f"{video_id}.mp3", f"{video_id}.txt"
AudioName(vid) == vid \o <<".mp3">>
WhisperName(vid) == vid \o <<".txt">>

SiblingNames(vid) == {vid \o <<e>> : e \in {".mp3", ".json", ".srt", ".tsv", ".vtt"}}

\* ------------------------------------------------------------ scenarios
\* what a collaborator may return: no fragment at all, or two fragments
FragLists == { <<>>, << <<"h", "i", " ">>, <<"y", "o">> >> }

OldText == <<"o", "l", "d">>

FrameKinds(p) ==
    IF p = "tool" THEN <<"file", "title", "retrieved", "body">>
    ELSE <<"file", "title", "vid", "retrieved", "sep", "body">>

BannerKinds == <<"banner_rule", "banner_session", "banner_channel", "banner_rule2">>

NoScenario == [fault |-> "none", frags |-> <<>>]

Timestamps == {"T1", "T2"}
NoFile == <<>>

\* --output-file default "master-transcript.txt"; COMBINED_FILE
MasterName == <<"m", "a", "s", "t", "e", "r", "-transcript.txt">>
AllName == <<"a", "l", "l", "-", "t", "r", "a", "n", "s", "c", "r", "i", "p", "t", "s", ".txt">>

VARIABLES
    output_file, prog, strategy, video_ids, run,
    pc, idx, status, stats, handed, report,
    scen, calls, text, filename,
    disk, disk0, existing_files,
    combined, combinedExists, runStart,
    prevRun, titleFault, mark, savedEmpty,
    sa_pc, sa_audio, sa_out, sa_blob, sa_pending, sa_exit, sa_text,
    uploads, deletes, bucket, intr

orchVars == <<output_file, prog, strategy, video_ids, run, idx, stats, handed, report,
              disk0, existing_files, combinedExists, runStart, prevRun>>
execVars == <<status, scen, calls, text, filename, titleFault>>
adapterVars == <<sa_pc, sa_audio, sa_out, sa_blob, sa_pending, sa_exit, sa_text,
                 uploads, deletes, bucket, intr>>
\* history: the length of the combined output when the current video was
\* handed over, and the Saved outcomes of this run whose text was empty
ghostVars == <<mark, savedEmpty>>
vars == <<orchVars, execVars, adapterVars, ghostVars, pc, disk, combined>>

ZeroStats == [new |-> 0, skipped |-> 0, error |-> 0]

ReverseOrder(k) == Len(video_ids) + 1 - k

\* "for vid in video_ids": the position handled by the k-th iteration
Order(k) == k

Cur == Order(idx)
CurVid == video_ids[Cur]

Exists(f) == f \in DOMAIN disk
WriteFile(d, f, c) == (f :> c) @@ d
RemoveFile(d, f) == [n \in (DOMAIN d) \ {f} |-> d[n]]
RemoveAll(d, fs) == [n \in (DOMAIN d) \ fs |-> d[n]]

AdapterIdle ==
    /\ sa_pc = "sa_idle" /\ sa_audio = NoFile /\ sa_out = NoFile
    /\ sa_blob = <<>> /\ sa_pending = "ok" /\ sa_exit = 0 /\ sa_text = <<>>
    /\ uploads = <<>> /\ deletes = <<>> /\ bucket = {} /\ intr = 0

InitialDisks ==
    {[f \in S |-> OldText] : S \in SUBSET {Filename(i) : i \in 1..NumVideos}}

Init ==
    /\ prog \in {"tool", "latest"}
    /\ output_file = IF prog = "tool" THEN MasterName ELSE AllName
    /\ strategy \in (IF prog = "tool" THEN {"whisper", "api", "gcs"} ELSE {"api"})
    /\ video_ids \in {SubSeq(AllIds, 1, n) : n \in 0..NumVideos}
    /\ run = 1
    /\ pc = "o_start" /\ idx = 1 /\ status = "none" /\ stats = ZeroStats
    /\ handed = <<>> /\ report = "none"
    /\ scen = NoScenario /\ calls = <<>> /\ text = <<>> /\ filename = NoFile
    /\ disk \in InitialDisks /\ disk0 = disk /\ existing_files = {}
    /\ combined \in {<<>>, <<[kind |-> "old", vid |-> 0]>>}
    /\ combinedExists = (combined # <<>>)
    /\ runStart = Len(combined)
    /\ prevRun = "none" /\ titleFault = FALSE
    /\ mark = Len(combined) /\ savedEmpty = 0
    /\ AdapterIdle

\* ------------------------------------------------ the orchestrator
\* process_channel: "if not video_ids: return"; __main__ of
\* getlastesttranscript.py: "if videos: process_videos(videos) else: ..."
Begin ==
    /\ pc = "o_start"
    /\ IF video_ids = <<>>
       THEN /\ pc' = "o_done"
            /\ report' = IF prog = "tool" THEN "nothing" ELSE "no_videos"
            /\ UNCHANGED existing_files
       ELSE /\ pc' = "o_open"
            /\ existing_files' = IF prog = "latest" THEN DOMAIN disk ELSE {}
            /\ UNCHANGED report
    /\ UNCHANGED <<output_file, prog, strategy, video_ids, run, idx, stats, handed, disk0,
                   combinedExists, runStart, prevRun,
                   execVars, adapterVars, ghostVars, disk, combined>>

OpenTruncate(c) == <<>>

\* the content of the file once opened with mode "a": what it was
OpenAppend(c) == c

\* open(output_file, "a"): creates the file when absent, keeps its content
OpenCombined ==
    /\ pc = "o_open"
    /\ \E ok \in BOOLEAN :
         IF ok
         THEN /\ combinedExists' = TRUE
              /\ combined' = OpenAppend(combined)
              /\ runStart' = Len(combined')
              /\ pc' = IF prog = "latest" THEN "o_banner" ELSE "o_loop"
              /\ UNCHANGED report
         ELSE /\ pc' = IF prog = "latest" THEN "o_done" ELSE "o_crashed"
              /\ report' = IF prog = "latest" THEN "fatal" ELSE "traceback"
              /\ UNCHANGED <<combinedExists, runStart, combined>>
    /\ UNCHANGED <<output_file, prog, strategy, video_ids, run, idx, stats, handed, disk0,
                   existing_files, prevRun,
                   execVars, adapterVars, ghostVars, disk>>

Records(kinds, n, v) == [k \in 1..n |-> [kind |-> kinds[k], vid |-> v]]

\* process_videos: the four writes of the session banner; n of them succeed
WriteBanner ==
    /\ pc = "o_banner"
    /\ \E n \in 0..Len(BannerKinds) :
         /\ combined' = combined \o Records(BannerKinds, n, 0)
         /\ IF n = Len(BannerKinds)
            THEN pc' = "o_loop" /\ UNCHANGED report
            ELSE pc' = "o_done" /\ report' = "fatal"
    /\ UNCHANGED <<output_file, prog, strategy, video_ids, run, idx, stats, handed, disk0,
                   existing_files, combinedExists, runStart, prevRun,
                   execVars, adapterVars, ghostVars, disk>>

\* "for vid in video_ids": the next identifier is handed to the executor
NextVideo ==
    /\ pc = "o_loop"
    /\ idx <= Len(video_ids)
    /\ handed' = Append(handed, CurVid)
    /\ scen' = NoScenario
    /\ calls' = <<>> /\ text' = <<>> /\ filename' = NoFile /\ status' = "none"
    /\ mark' = Len(combined)
    /\ pc' = "e_title"
    /\ UNCHANGED <<output_file, prog, strategy, video_ids, run, idx, stats, report, disk0,
                   existing_files, combinedExists, runStart, prevRun,
                   titleFault, savedEmpty, adapterVars, disk, combined>>

\* the loop ends, the file is closed and the counts are printed
Summary ==
    /\ pc = "o_loop"
    /\ idx > Len(video_ids)
    /\ pc' = "o_done"
    /\ report' = "summary"
    /\ UNCHANGED <<output_file, prog, strategy, video_ids, run, idx, stats, handed, disk0,
                   existing_files, combinedExists, runStart, prevRun,
                   execVars, adapterVars, ghostVars, disk, combined>>

CountNoSkip(st, s) == IF s = "skipped" THEN st ELSE [st EXCEPT ![s] = @ + 1]

\* stats[status] += 1 / new_count, skip_count, error_count += 1
Bump(st, s) == [st EXCEPT ![s] = @ + 1]

AbortOnError(s, i) == IF s = "error" THEN Len(video_ids) + 1 ELSE i + 1

\* the index the loop goes on with after an outcome
NextIndex(s, i) == i + 1

Count ==
    /\ pc = "o_count"
    /\ stats' = Bump(stats, status)
    /\ idx' = NextIndex(status, idx)
    /\ pc' = "o_loop"
    /\ scen' = NoScenario /\ calls' = <<>> /\ text' = <<>> /\ filename' = NoFile
    /\ status' = "none"
    /\ UNCHANGED <<output_file, prog, strategy, video_ids, run, handed, report, disk0,
                   existing_files, combinedExists, runStart, prevRun,
                   titleFault, ghostVars, adapterVars, disk, combined>>

process_channel ==
    Begin \/ OpenCombined \/ WriteBanner \/ NextVideo \/ Summary \/ Count

\* ------------------------------------------------ the strategy executor
execFrame == <<output_file, prog, strategy, video_ids, run, idx, stats, handed, report, disk0,
               existing_files, combinedExists, runStart, prevRun, mark>>

\* call f raised; the exception is caught at the executor's boundary:
\* "except Exception ...: return False, 'error'" / "error_count += 1"
Raised(f) ==
    /\ pc' = "o_count"
    /\ status' = "error"
    /\ scen' = [scen EXCEPT !.fault = f]

\* subprocess f exited with a non-zero status: check=True raises
\* CalledProcessError, which "except subprocess.CalledProcessError" receives
CalledProcessError(f) ==
    /\ pc' = "e_handler"
    /\ scen' = [scen EXCEPT !.fault = f]
    /\ UNCHANGED status

\* yt = YouTube(url); yt.title: the metadata request
FetchTitle ==
    /\ pc = "e_title"
    /\ calls' = Append(calls, "title")
    /\ \/ Raised("title") /\ titleFault' = TRUE /\ UNCHANGED filename
       \/ /\ filename' = derived_filename(slugify(TitleOf(Cur)), CurVid)
          /\ pc' = "e_check"
          /\ UNCHANGED <<status, scen, titleFault>>
    /\ UNCHANGED <<execFrame, savedEmpty, text, adapterVars, disk, combined>>

NeverExists(f) == FALSE

\* os.path.exists(filename) / filename in existing_files
AlreadyThere(f) == IF prog = "tool" THEN Exists(f) ELSE f \in existing_files

FirstStep ==
    CASE strategy = "whisper" -> "e_w_ytdlp"
      [] strategy = "api" -> "e_a_get"
      [] strategy = "gcs" -> "e_g_ytdlp"

CheckExisting ==
    /\ pc = "e_check"
    /\ IF AlreadyThere(filename)
       THEN pc' = "o_count" /\ status' = "skipped"
       ELSE pc' = FirstStep /\ UNCHANGED status
    /\ UNCHANGED <<execFrame, savedEmpty, scen, calls, text, filename, titleFault,
                   adapterVars, disk, combined>>

\* subprocess.run(['yt-dlp', ...], check=True): both local strategies
ExtractAudio ==
    /\ pc \in {"e_w_ytdlp", "e_g_ytdlp"}
    /\ calls' = Append(calls, "yt-dlp")
    /\ \/ CalledProcessError("ytdlp") /\ UNCHANGED disk
       \/ /\ disk' = WriteFile(disk, AudioName(CurVid), <<"m", "p", "3">>)
          /\ pc' = IF pc = "e_w_ytdlp" THEN "e_w_whisper" ELSE "e_g_run"
          /\ UNCHANGED <<status, scen>>
    /\ UNCHANGED <<execFrame, savedEmpty, text, filename, titleFault, adapterVars, combined>>

\* subprocess.run(['whisper', audio, '--model', 'base', ...], check=True)
RunWhisper ==
    /\ pc = "e_w_whisper"
    /\ calls' = Append(calls, "whisper")
    /\ \/ CalledProcessError("whisper") /\ UNCHANGED disk
       \/ \E fr \in FragLists :
            /\ scen' = [scen EXCEPT !.frags = fr]
            /\ disk' = WriteFile(disk, WhisperName(CurVid), JoinSpace(fr))
            /\ pc' = "e_w_read"
            /\ UNCHANGED status
    /\ UNCHANGED <<execFrame, savedEmpty, text, filename, titleFault, adapterVars, combined>>

\* with open(whisper_output_file) as f: text = f.read()
ReadWhisper ==
    /\ pc = "e_w_read"
    /\ \/ Raised("read") /\ UNCHANGED text
       \/ /\ Exists(WhisperName(CurVid))
          /\ text' = disk[WhisperName(CurVid)]
          /\ pc' = "e_w_rename"
          /\ UNCHANGED <<status, scen>>
    /\ UNCHANGED <<execFrame, savedEmpty, calls, filename, titleFault, adapterVars,
                   disk, combined>>

\* os.rename(whisper_output_file, filename)
RenameWhisper ==
    /\ pc = "e_w_rename"
    /\ \/ Raised("rename") /\ UNCHANGED disk
       \/ /\ disk' = WriteFile(RemoveFile(disk, WhisperName(CurVid)),
                               filename, disk[WhisperName(CurVid)])
          /\ pc' = "e_w_clean"
          /\ UNCHANGED <<status, scen>>
    /\ UNCHANGED <<execFrame, savedEmpty, calls, text, filename, titleFault,
                   adapterVars, combined>>

\* for ext in [...]: if os.path.exists(...): os.remove(...)
CleanSiblings ==
    /\ pc = "e_w_clean"
    /\ \/ /\ (SiblingNames(CurVid) \cap DOMAIN disk) # {}
          /\ Raised("remove")
          /\ UNCHANGED disk
       \/ /\ disk' = RemoveAll(disk, SiblingNames(CurVid))
          /\ pc' = "e_frame"
          /\ UNCHANGED <<status, scen>>
    /\ UNCHANGED <<execFrame, savedEmpty, calls, text, filename, titleFault,
                   adapterVars, combined>>

\* YouTubeTranscriptApi.get_transcript(video_id); " ".join(...)
GetCaptions ==
    /\ pc = "e_a_get"
    /\ calls' = Append(calls, "captions")
    /\ \/ Raised("captions") /\ UNCHANGED text
       \/ \E fr \in FragLists :
            /\ scen' = [scen EXCEPT !.frags = fr]
            /\ text' = JoinSpace(fr)
            /\ pc' = "e_a_write"
            /\ UNCHANGED status
    /\ UNCHANGED <<execFrame, savedEmpty, filename, titleFault, adapterVars, disk, combined>>

\* with open(filename, "w") as f: f.write(text)
WriteArtifact ==
    /\ pc = "e_a_write"
    /\ \/ Raised("art_open") /\ UNCHANGED disk
       \/ Raised("art_write") /\ disk' = WriteFile(disk, filename, <<>>)
       \/ /\ disk' = WriteFile(disk, filename, text)
          /\ pc' = "e_frame"
          /\ UNCHANGED <<status, scen>>
    /\ UNCHANGED <<execFrame, savedEmpty, calls, text, filename, titleFault,
                   adapterVars, combined>>

\* subprocess.run(['python3', 'transcribe_audio.py', audio, '--gcs-bucket',
\* GCS_BUCKET, '--output-file', filename], check=True): the adapter starts
RunAdapter ==
    /\ pc = "e_g_run"
    /\ sa_pc = "sa_idle"
    /\ calls' = Append(calls, "transcribe_audio.py")
    /\ sa_pc' = "sa_name"
    /\ sa_audio' = AudioName(CurVid) /\ sa_out' = filename
    /\ pc' = "e_g_wait"
    /\ UNCHANGED <<execFrame, savedEmpty, status, scen, text, filename, titleFault,
                   sa_blob, sa_pending, sa_exit, sa_text,
                   uploads, deletes, bucket, intr, disk, combined>>

\* the subprocess has exited: check=True raises on a non-zero exit status
AdapterReturned ==
    /\ pc = "e_g_wait"
    /\ sa_pc = "sa_exited"
    /\ sa_pc' = "sa_idle" /\ sa_audio' = NoFile /\ sa_out' = NoFile
    /\ sa_blob' = <<>> /\ sa_pending' = "ok" /\ sa_exit' = 0 /\ sa_text' = <<>>
    /\ uploads' = <<>> /\ deletes' = <<>> /\ bucket' = {}
    /\ UNCHANGED intr
    /\ IF sa_exit # 0
       THEN pc' = "e_handler" /\ UNCHANGED status
       ELSE pc' = "e_g_read" /\ UNCHANGED status
    /\ UNCHANGED <<execFrame, savedEmpty, scen, calls, text, filename, titleFault,
                   disk, combined>>

\* with open(filename) as f: text = f.read()
ReadArtifact ==
    /\ pc = "e_g_read"
    /\ \/ Raised("read") /\ UNCHANGED text
       \/ /\ Exists(filename)
          /\ text' = disk[filename]
          /\ pc' = "e_g_remove"
          /\ UNCHANGED <<status, scen>>
    /\ UNCHANGED <<execFrame, savedEmpty, calls, filename, titleFault, adapterVars,
                   disk, combined>>

\* os.remove(audio_filename)
RemoveAudio ==
    /\ pc = "e_g_remove"
    /\ \/ Raised("remove") /\ UNCHANGED disk
       \/ /\ Exists(AudioName(CurVid))
          /\ disk' = RemoveFile(disk, AudioName(CurVid))
          /\ pc' = "e_frame"
          /\ UNCHANGED <<status, scen>>
    /\ UNCHANGED <<execFrame, savedEmpty, calls, text, filename, titleFault,
                   adapterVars, combined>>

WritesAlways(p, t) == TRUE

\* "if combined_file_handle and text:" (process_videos writes unconditionally)
WritesFrame(p, t) == p = "latest" \/ t # <<>>

\* the writes of one framed entry, in order: n of them succeed before one
\* raises; "return True, 'new'" (new_count += 1) when none does
AppendFrame ==
    /\ pc = "e_frame"
    /\ pc' = "o_count"
    /\ IF ~WritesFrame(prog, text)
       THEN status' = "new" /\ UNCHANGED <<combined, scen>>
       ELSE \E n \in 0..Len(FrameKinds(prog)) :
              /\ combined' = combined \o Records(FrameKinds(prog), n, Cur)
              /\ IF n = Len(FrameKinds(prog))
                 THEN status' = "new" /\ UNCHANGED scen
                 ELSE status' = "error" /\ scen' = [scen EXCEPT !.fault = "frame"]
    /\ savedEmpty' = IF status' = "new" /\ text = <<>> THEN savedEmpty + 1 ELSE savedEmpty
    /\ UNCHANGED <<execFrame, calls, text, filename, titleFault,
                   adapterVars, disk>>

\* "except subprocess.CalledProcessError as e:" the handler prints
\* e.stderr.decode('utf-8') and returns (False, "error"); when the captured
\* bytes are not UTF-8 the decode raises inside the handler, no other except
\* clause applies, and the exception leaves the function: process_channel
\* has no handler, its with-block closes the file and the run ends
SubprocessError ==
    /\ pc = "e_handler"
    /\ \E decodes \in BOOLEAN :
         IF decodes
         THEN pc' = "o_count" /\ status' = "error" /\ UNCHANGED report
         ELSE pc' = "o_crashed" /\ status' = "raised" /\ report' = "traceback"
    /\ UNCHANGED <<output_file, prog, strategy, video_ids, run, idx, stats, handed, disk0,
                   existing_files, combinedExists, runStart, prevRun,
                   scen, calls, text, filename, titleFault,
                   adapterVars, ghostVars, disk, combined>>

download_and_save_transcript ==
    \/ FetchTitle \/ CheckExisting
    \/ ExtractAudio \/ RunWhisper \/ ReadWhisper \/ RenameWhisper \/ CleanSiblings
    \/ GetCaptions \/ WriteArtifact
    \/ RunAdapter \/ AdapterReturned \/ ReadArtifact \/ RemoveAudio
    \/ AppendFrame \/ SubprocessError

\* ------------------------------------------ the staging adapter (main)
adapterFrame == <<orchVars, ghostVars, status, calls, text, filename, titleFault,
                  pc, combined>>

\* the exit status of the process for the way main is left
ExitStatus(p) ==
    CASE p = "ok" -> 0
      [] p = "exit0" -> 0
      [] p = "exit1" -> 1
      [] p = "exc" -> 1
      [] p = "kbi" -> 130

\* an exception or SystemExit leaves the try block: on to the finally clause
Leave(p) == sa_pc' = "sa_finally" /\ sa_pending' = p

\* call f of the adapter failed
Fails(f) == scen' = [scen EXCEPT !.fault = f]

\* gcs_blob_name = f"audio_transcription/{timestamp}_{file_basename}"
BlobName(ts, audio) == <<"audio_transcription/", ts, "_">> \o audio

NameBlob ==
    /\ sa_pc = "sa_name"
    /\ \E ts \in Timestamps : sa_blob' = BlobName(ts, sa_audio)
    /\ sa_pc' = "sa_upclient"
    /\ UNCHANGED <<adapterFrame, scen, disk, sa_audio, sa_out, sa_pending, sa_exit,
                   sa_text, uploads, deletes, bucket, intr>>

\* upload_blob(args.gcs_bucket, args.audio_file, gcs_blob_name) is called:
\* storage.Client(), bucket.blob(name)
UploadClient ==
    /\ sa_pc = "sa_upclient"
    /\ uploads' = Append(uploads, sa_blob)
    /\ \/ Fails("sa_creds") /\ Leave("exc")
       \/ sa_pc' = "sa_upload" /\ UNCHANGED <<sa_pending, scen>>
    /\ UNCHANGED <<adapterFrame, disk, sa_audio, sa_out, sa_blob, sa_exit,
                   sa_text, deletes, bucket, intr>>

\* upload_blob: blob.upload_from_filename(source_file_name) is issued
upload_blob ==
    /\ sa_pc = "sa_upload"
    /\ sa_pc' = "sa_uploading"
    /\ UNCHANGED <<adapterFrame, scen, disk, sa_audio, sa_out, sa_blob, sa_pending,
                   sa_exit, sa_text, uploads, deletes, bucket, intr>>

\* the upload ends: the object exists, or the request raised
UploadDone ==
    /\ sa_pc = "sa_uploading"
    /\ \/ Fails("sa_upload") /\ Leave("exc") /\ UNCHANGED bucket
       \/ /\ bucket' = bucket \cup {sa_blob}
          /\ sa_pc' = "sa_submit"
          /\ UNCHANGED <<sa_pending, scen>>
    /\ UNCHANGED <<adapterFrame, disk, sa_audio, sa_out, sa_blob, sa_exit,
                   sa_text, uploads, deletes, intr>>

\* transcribe_gcs_long_running: client.long_running_recognize(...)
SubmitRecognize ==
    /\ sa_pc = "sa_submit"
    /\ sa_pc' = "sa_wait"
    /\ UNCHANGED <<adapterFrame, scen, disk, sa_audio, sa_out, sa_blob, sa_pending,
                   sa_exit, sa_text, uploads, deletes, bucket, intr>>

\* operation.result(timeout=None) resolves; a failure is caught, None is
\* returned and main calls sys.exit(1)
transcribe_gcs_long_running ==
    /\ sa_pc = "sa_wait"
    /\ \/ Fails("sa_lro") /\ Leave("exit1") /\ UNCHANGED sa_text
       \/ \E fr \in FragLists :
            /\ scen' = [scen EXCEPT !.frags = fr]
            /\ sa_text' = JoinSpace(fr)
            /\ sa_pc' = "sa_out"
            /\ UNCHANGED sa_pending
    /\ UNCHANGED <<adapterFrame, disk, sa_audio, sa_out, sa_blob, sa_exit,
                   uploads, deletes, bucket, intr>>

\* "if args.output_file: open(args.output_file, 'w')" else print
OpenOutput ==
    /\ sa_pc = "sa_out"
    /\ IF sa_out = NoFile
       THEN Leave("ok") /\ UNCHANGED <<disk, scen>>
       ELSE \/ Fails("sa_open") /\ Leave("exc") /\ UNCHANGED disk
            \/ /\ disk' = WriteFile(disk, sa_out, <<>>)
               /\ sa_pc' = "sa_writing"
               /\ UNCHANGED <<sa_pending, scen>>
    /\ UNCHANGED <<adapterFrame, sa_audio, sa_out, sa_blob, sa_exit, sa_text,
                   uploads, deletes, bucket, intr>>

\* f.write(transcription)
WriteOutput ==
    /\ sa_pc = "sa_writing"
    /\ \/ Fails("sa_write") /\ Leave("exc") /\ UNCHANGED disk
       \/ Leave("ok") /\ disk' = WriteFile(disk, sa_out, sa_text) /\ UNCHANGED scen
    /\ UNCHANGED <<adapterFrame, sa_audio, sa_out, sa_blob, sa_exit, sa_text,
                   uploads, deletes, bucket, intr>>

\* "except KeyboardInterrupt:" print, sys.exit(0)
InterruptHandler ==
    /\ sa_pc = "sa_handler"
    /\ Leave("exit0")
    /\ UNCHANGED <<adapterFrame, scen, disk, sa_audio, sa_out, sa_blob, sa_exit,
                   sa_text, uploads, deletes, bucket, intr>>

CleanupOnSuccessOnly(blob, pending) == blob # <<>> /\ pending = "ok"

\* "finally: if gcs_blob_name:"
NeedsCleanup(blob, pending) == blob # <<>>

\* the blob delete_blob is called with: gcs_blob_name
DeleteTarget(blob, audio) == blob

\* "finally: if gcs_blob_name: delete_blob(args.gcs_bucket, gcs_blob_name)"
Finally ==
    /\ sa_pc = "sa_finally"
    /\ IF NeedsCleanup(sa_blob, sa_pending)
       THEN /\ deletes' = Append(deletes, [blob |-> DeleteTarget(sa_blob, sa_audio),
                                           state |-> "called"])
            /\ sa_pc' = "sa_delclient"
            /\ UNCHANGED sa_exit
       ELSE /\ sa_pc' = "sa_exited" /\ sa_exit' = ExitStatus(sa_pending)
            /\ UNCHANGED deletes
    /\ UNCHANGED <<adapterFrame, scen, disk, sa_audio, sa_out, sa_blob, sa_pending,
                   sa_text, uploads, bucket, intr>>

\* delete_blob: storage.Client(), bucket.blob(name); an exception raised here
\* is printed and swallowed, and no delete request is sent
DeleteClient ==
    /\ sa_pc = "sa_delclient"
    /\ \/ /\ deletes' = [deletes EXCEPT ![Len(deletes)].state = "noclient"]
          /\ sa_pc' = "sa_exited" /\ sa_exit' = ExitStatus(sa_pending)
       \/ sa_pc' = "sa_delete" /\ UNCHANGED <<sa_exit, deletes>>
    /\ UNCHANGED <<adapterFrame, scen, disk, sa_audio, sa_out, sa_blob, sa_pending,
                   sa_text, uploads, bucket, intr>>

\* delete_blob: blob.delete() is sent; NotFound and any other exception
\* are printed and swallowed
delete_blob ==
    /\ sa_pc = "sa_delete"
    /\ deletes' = [deletes EXCEPT ![Len(deletes)].state = "sent"]
    /\ \E removed \in BOOLEAN :
         bucket' = IF removed THEN bucket \ {deletes[Len(deletes)].blob} ELSE bucket
    /\ sa_pc' = "sa_exited"
    /\ sa_exit' = ExitStatus(sa_pending)
    /\ UNCHANGED <<adapterFrame, scen, disk, sa_audio, sa_out, sa_blob, sa_pending,
                   sa_text, uploads, intr>>

TryPcs == {"sa_name", "sa_upclient", "sa_upload", "sa_uploading", "sa_submit",
           "sa_wait", "sa_out", "sa_writing"}
FinallyPcs == {"sa_finally", "sa_delclient", "sa_delete"}

\* SIGINT: KeyboardInterrupt is raised at the point main has reached
KeyboardInterrupt ==
    /\ intr < MaxInterrupts
    /\ intr' = intr + 1
    /\ \/ /\ sa_pc \in TryPcs
          /\ sa_pc' = "sa_handler"
          /\ UNCHANGED <<sa_pending, sa_exit>>
       \/ /\ sa_pc = "sa_handler"
          /\ Leave("kbi")
          /\ UNCHANGED sa_exit
       \/ /\ sa_pc \in FinallyPcs
          /\ sa_pc' = "sa_exited"
          /\ sa_pending' = "kbi"
          /\ sa_exit' = ExitStatus("kbi")
    /\ UNCHANGED <<adapterFrame, scen, disk, sa_audio, sa_out, sa_blob, sa_text,
                   uploads, deletes, bucket>>

main ==
    \/ NameBlob \/ UploadClient \/ upload_blob \/ UploadDone
    \/ SubmitRecognize \/ transcribe_gcs_long_running
    \/ OpenOutput \/ WriteOutput
    \/ Finally \/ DeleteClient \/ delete_blob

\* ------------------------------------------------------ specifications
\* one run of the channel pipeline
Next == process_channel \/ download_and_save_transcript \/ main

Spec == Init /\ [][Next]_vars

\* one run of the channel pipeline in which the program keeps running: a
\* step that can be taken is eventually taken
SpecFair == Init /\ [][Next]_vars /\ WF_vars(Next)

\* the program is run a second time on the same channel with the same
\* strategy, the files of the first run left as they are
Rerun ==
    /\ pc \in {"o_done", "o_crashed"}
    /\ run = 1
    /\ run' = run + 1
    /\ prevRun' = IF report # "summary" THEN "incomplete"
                   ELSE IF stats.error = 0 THEN "clean" ELSE "failed"
    /\ stats' = ZeroStats /\ report' = "none" /\ idx' = 1 /\ handed' = <<>>
    /\ disk0' = disk /\ existing_files' = {}
    /\ runStart' = Len(combined)
    /\ titleFault' = FALSE
    /\ mark' = Len(combined) /\ savedEmpty' = 0
    /\ pc' = "o_start"
    /\ UNCHANGED <<output_file, prog, strategy, video_ids, combinedExists,
                   status, scen, calls, text, filename,
                   adapterVars, disk, combined>>

NextTwice == Next \/ Rerun

InitTwice == Init /\ combined = <<>>

SpecTwice == InitTwice /\ [][NextTwice]_vars

\* transcribe_audio.py run on its own from the shell
StagingAudio == <<"x", ".mp3">>
StagingOutput == <<"x", ".out">>

InitStaging ==
    /\ output_file = MasterName
    /\ prog = "tool" /\ strategy = "gcs" /\ video_ids = <<>> /\ run = 1
    /\ pc = "standalone" /\ idx = 1 /\ status = "none" /\ stats = ZeroStats
    /\ handed = <<>> /\ report = "none"
    /\ scen = NoScenario
    /\ calls = <<>> /\ text = <<>> /\ filename = NoFile
    /\ disk = (StagingAudio :> <<"m", "p", "3">>)
    /\ disk0 = disk /\ existing_files = {}
    /\ combined = <<>> /\ combinedExists = FALSE /\ runStart = 0
    /\ prevRun = "none" /\ titleFault = FALSE
    /\ mark = 0 /\ savedEmpty = 0
    /\ sa_pc = "sa_name" /\ sa_audio = StagingAudio
    /\ sa_out \in {NoFile, StagingOutput}
    /\ sa_blob = <<>> /\ sa_pending = "ok" /\ sa_exit = 0 /\ sa_text = <<>>
    /\ uploads = <<>> /\ deletes = <<>> /\ bucket = {} /\ intr = 0

NextStaging == main \/ InterruptHandler \/ KeyboardInterrupt

SpecStaging == InitStaging /\ [][NextStaging]_vars

\* ----------------------------------------- recombine-mode (--combine-only)
\* the characters a file-name token stands for
Spell(tok) ==
    CASE tok = "-transcript.txt" ->
           <<"-", "t", "r", "a", "n", "s", "c", "r", "i", "p", "t", ".", "t", "x", "t">>
      [] tok = ".mp3" -> <<".", "m", "p", "3">>
      [] tok = ".txt" -> <<".", "t", "x", "t">>
      [] OTHER -> <<tok>>

RECURSIVE Flat(_)
Flat(name) == IF name = <<>> THEN <<>> ELSE Spell(Head(name)) \o Flat(Tail(name))

\* str.endswith(suffix)
EndsWith(str, suffix) ==
    /\ Len(str) >= Len(suffix)
    /\ SubSeq(str, Len(str) - Len(suffix) + 1, Len(str)) = suffix

\* f.endswith("-transcript.txt")
IsTranscriptName(f) == EndsWith(Flat(f), Spell("-transcript.txt"))

\* the characters of the names, in code-point order
CodeOrder ==
    <<"-", ".", "3", "_", "a", "b", "c", "d", "e", "i", "l", "m", "n", "p", "q",
      "r", "s", "t", "x", "z">>

CodePoint(c) == CHOOSE i \in 1..Len(CodeOrder) : CodeOrder[i] = c

\* a < b for two strings
RECURSIVE StrLess(_, _)
StrLess(a, b) ==
    IF a = <<>> THEN b # <<>>
    ELSE IF b = <<>> THEN FALSE
    ELSE IF Head(a) = Head(b) THEN StrLess(Tail(a), Tail(b))
    ELSE CodePoint(Head(a)) < CodePoint(Head(b))

\* sorted(files)
RECURSIVE sorted(_)
sorted(S) ==
    IF S = {} THEN <<>>
    ELSE LET m == CHOOSE x \in S : \A y \in S \ {x} : StrLess(Flat(x), Flat(y))
         IN  <<m>> \o sorted(S \ {m})

\* os.listdir(): the working directory, the combined output among its files
listdir == DOMAIN disk \cup (IF combinedExists THEN {output_file} ELSE {})

\* what a read of the combined output returns while it is being rewritten:
\* nothing, or what the buffered handle has flushed so far
OwnFlushed == <<"#">>

\* a local artifact whose name sorts after the default output's
LateName == <<"z", "-", "q", "q", "-transcript.txt">>

combineFrame == <<prog, strategy, video_ids, run, stats, handed, disk0, runStart,
                  prevRun, output_file, status, calls, titleFault, adapterVars,
                  ghostVars, disk>>

\* files = [f for f in os.listdir() if f.endswith("-transcript.txt")];
\* "if not files: print(no transcript files found); return"
ListFiles ==
    /\ pc = "c_list"
    /\ existing_files' = {f \in listdir : IsTranscriptName(f)}
    /\ IF existing_files' = {}
       THEN pc' = "c_done" /\ report' = "no_files"
       ELSE pc' = "c_open" /\ UNCHANGED report
    /\ UNCHANGED <<combineFrame, idx, scen, text, filename, combined, combinedExists>>

\* with open(output_file, "w") as combined: the file is created or emptied
OpenForRewrite ==
    /\ pc = "c_open"
    /\ \/ /\ combined' = <<>> /\ combinedExists' = TRUE
          /\ pc' = "c_header"
          /\ UNCHANGED <<report, scen>>
       \/ /\ pc' = "c_crashed" /\ report' = "traceback"
          /\ scen' = [scen EXCEPT !.fault = "open"]
          /\ UNCHANGED <<combined, combinedExists>>
    /\ UNCHANGED <<combineFrame, idx, text, filename, existing_files>>

\* combined.write("Combined Transcripts (from local files) ...")
WriteHeader ==
    /\ pc = "c_header"
    /\ \/ /\ combined' = Append(combined, [kind |-> "header", vid |-> 0])
          /\ pc' = "c_loop"
          /\ UNCHANGED <<report, scen>>
       \/ /\ pc' = "c_crashed" /\ report' = "traceback"
          /\ scen' = [scen EXCEPT !.fault = "header"]
          /\ UNCHANGED combined
    /\ UNCHANGED <<combineFrame, idx, text, filename, existing_files, combinedExists>>

\* "for filename in sorted(files)": open(filename).read(); a failure is
\* printed and the file is passed over
ReadNext ==
    /\ pc = "c_loop"
    /\ idx <= Len(sorted(existing_files))
    /\ filename' = sorted(existing_files)[idx]
    /\ \/ /\ scen' = [scen EXCEPT !.fault = "read"]
          /\ idx' = idx + 1
          /\ UNCHANGED <<pc, text>>
       \/ /\ IF filename' = output_file
             THEN text' \in {<<>>, OwnFlushed}
             ELSE filename' \in DOMAIN disk /\ text' = disk[filename']
          /\ pc' = "c_write"
          /\ UNCHANGED <<idx, scen>>
    /\ UNCHANGED <<combineFrame, report, existing_files, combined, combinedExists>>

\* combined.write("## Episode Transcript: {filename}\n{content}\n\n"); a
\* failure is printed and the loop goes on
WriteEntry ==
    /\ pc = "c_write"
    /\ \/ /\ combined' = Append(combined, [kind |-> "episode", vid |-> 0,
                                            name |-> filename, text |-> text])
          /\ UNCHANGED scen
       \/ /\ scen' = [scen EXCEPT !.fault = "write"]
          /\ UNCHANGED combined
    /\ idx' = idx + 1
    /\ pc' = "c_loop"
    /\ UNCHANGED <<combineFrame, report, text, filename, existing_files, combinedExists>>

\* the loop ends, the file is closed, "All local transcripts combined"
CombineDone ==
    /\ pc = "c_loop"
    /\ idx > Len(sorted(existing_files))
    /\ pc' = "c_done" /\ report' = "combined"
    /\ UNCHANGED <<combineFrame, idx, scen, text, filename, existing_files,
                   combined, combinedExists>>

combine_local_files ==
    ListFiles \/ OpenForRewrite \/ WriteHeader \/ ReadNext \/ WriteEntry \/ CombineDone

\* the working directory before "--combine-only": any of the artifacts, a
\* later-sorting one and an audio file; the output under either name,
\* present (with older content) or not
InitCombine ==
    /\ prog = "combine" /\ strategy = "none" /\ video_ids = <<>> /\ run = 1
    /\ output_file \in {MasterName, AllName}
    /\ pc = "c_list" /\ idx = 1 /\ status = "none" /\ stats = ZeroStats
    /\ handed = <<>> /\ report = "none"
    /\ scen = NoScenario /\ calls = <<>> /\ text = <<>> /\ filename = NoFile
    /\ \E S \in SUBSET ({Filename(i) : i \in 1..NumVideos}
                          \cup {LateName, AudioName(VidOf(1))}) :
         disk = [f \in S |-> OldText]
    /\ disk0 = disk /\ existing_files = {}
    /\ combined \in {<<>>, <<[kind |-> "old", vid |-> 0]>>}
    /\ combinedExists = (combined # <<>>)
    /\ runStart = Len(combined)
    /\ prevRun = "none" /\ titleFault = FALSE
    /\ mark = Len(combined) /\ savedEmpty = 0
    /\ AdapterIdle

NextCombine == combine_local_files

SpecCombine == InitCombine /\ [][NextCombine]_vars

\* ------------------------------------- the identifier resolver
\* the identifiers of a page of k items, n items listed before it
PageIds(n, k) == [i \in 1..k |-> VidOf(n + i)]

RECURSIVE Concat(_)
Concat(pages) == IF pages = <<>> THEN <<>> ELSE Head(pages).ids \o Concat(Tail(pages))

ExtendFront(acc, ids) == ids \o acc

\* video_ids.extend([...])
Extend(acc, ids) == acc \o ids

resolveFrame == <<output_file, prog, strategy, run, stats, report, disk0,
                  existing_files, combinedExists, runStart, prevRun,
                  status, text, filename, titleFault, adapterVars, ghostVars,
                  disk, combined>>

\* youtube.channels().list(part="contentDetails", id=channel_id).execute()
\* and the uploads playlist of its first item; on any exception "return []"
ResolveChannel ==
    /\ pc = "r_channel"
    /\ calls' = Append(calls, "channels.list")
    /\ \/ /\ scen' = [scen EXCEPT !.fault = "channel"]
          /\ video_ids' = <<>>
          /\ pc' = "r_done"
       \/ /\ video_ids' = <<>>
          /\ pc' = "r_page"
          /\ UNCHANGED scen
    /\ UNCHANGED <<resolveFrame, idx, handed>>

\* youtube.playlistItems().list(..., pageToken=next_page_token).execute():
\* the page's identifiers are appended; "if not next_page_token: break";
\* on any exception "break"
FetchPage ==
    /\ pc = "r_page"
    /\ calls' = Append(calls, "playlistItems.list")
    /\ \/ /\ scen' = [scen EXCEPT !.fault = "page"]
          /\ pc' = "r_done"
          /\ UNCHANGED <<video_ids, handed, idx>>
       \/ \E k \in 0..MaxPageSize, token \in BOOLEAN :
            /\ token => idx < MaxPages
            /\ handed' = Append(handed, [ids |-> PageIds(Len(Concat(handed)), k),
                                         token |-> token])
            /\ video_ids' = Extend(video_ids, PageIds(Len(Concat(handed)), k))
            /\ IF token THEN idx' = idx + 1 /\ pc' = "r_page"
                        ELSE idx' = idx /\ pc' = "r_done"
            /\ UNCHANGED scen
    /\ UNCHANGED resolveFrame

get_channel_videos == ResolveChannel \/ FetchPage

InitResolve ==
    /\ prog \in {"tool", "latest"}
    /\ output_file = IF prog = "tool" THEN MasterName ELSE AllName
    /\ strategy = "api" /\ video_ids = <<>> /\ run = 1
    /\ pc = "r_channel" /\ idx = 1 /\ status = "none" /\ stats = ZeroStats
    /\ handed = <<>> /\ report = "none"
    /\ scen = NoScenario /\ calls = <<>> /\ text = <<>> /\ filename = NoFile
    /\ disk = <<>> /\ disk0 = disk /\ existing_files = {}
    /\ combined = <<>> /\ combinedExists = FALSE /\ runStart = 0
    /\ prevRun = "none" /\ titleFault = FALSE
    /\ mark = 0 /\ savedEmpty = 0
    /\ AdapterIdle

NextResolve == get_channel_videos

SpecResolve == InitResolve /\ [][NextResolve]_vars

\* ------------------------------------------------- slugify on its own
\* the characters of a title: letters (one of them not ASCII), a digit, the
\* underscore, the hyphen, white space, the colon and other punctuation
TitleChars == {"A", "b", "e_acute", "1", "_", "-", " ", ":", "!"}

RECURSIVE TitlesOfLen(_)
TitlesOfLen(n) ==
    IF n = 0 THEN {<<>>}
    ELSE {Append(t, c) : t \in TitlesOfLen(n - 1), c \in TitleChars}

slugFrame == <<output_file, prog, strategy, video_ids, run, idx, stats, handed,
               report, disk0, existing_files, combinedExists, runStart, prevRun,
               status, scen, calls, text, titleFault, adapterVars, ghostVars,
               disk, combined>>

\* text = re.sub(r'[^\w\s-]', '', text)
SubSpecial ==
    /\ pc = "s_special"
    /\ filename' = StripSpecial(text)
    /\ pc' = "s_separators"
    /\ UNCHANGED slugFrame

\* text = re.sub(r'[\s:]+', '_', text)
SubSeparators ==
    /\ pc = "s_separators"
    /\ filename' = CollapseSeparators(filename)
    /\ pc' = "s_lower"
    /\ UNCHANGED slugFrame

\* return text.lower().strip('_')
LowerStrip ==
    /\ pc = "s_lower"
    /\ filename' = StripUnderscores(LowerAll(filename))
    /\ pc' = "s_done"
    /\ UNCHANGED slugFrame

\* slugify(yt.title) for any title: text is the title, filename the slug
InitSlug ==
    /\ prog \in {"tool", "latest"}
    /\ output_file = IF prog = "tool" THEN MasterName ELSE AllName
    /\ strategy = "api" /\ video_ids = <<>> /\ run = 1
    /\ pc = "s_special" /\ idx = 1 /\ status = "none" /\ stats = ZeroStats
    /\ handed = <<>> /\ report = "none"
    /\ scen = NoScenario /\ calls = <<>> /\ filename = NoFile
    /\ \E n \in 0..MaxTitleLen : text \in TitlesOfLen(n)
    /\ disk = <<>> /\ disk0 = disk /\ existing_files = {}
    /\ combined = <<>> /\ combinedExists = FALSE /\ runStart = 0
    /\ prevRun = "none" /\ titleFault = FALSE
    /\ mark = 0 /\ savedEmpty = 0
    /\ AdapterIdle

NextSlug == SubSpecial \/ SubSeparators \/ LowerStrip

SpecSlug == InitSlug /\ [][NextSlug]_vars

\* ------------------------------------------------------------- claims
InVideo == pc \in {"e_title", "e_check", "e_w_ytdlp", "e_w_whisper", "e_w_read",
                   "e_w_rename", "e_w_clean", "e_a_get", "e_a_write", "e_g_ytdlp",
                   "e_g_run", "e_g_wait", "e_g_read", "e_g_remove", "e_frame",
                   "e_handler",
                   "o_count"}

Returned == pc = "o_count"

Completed == pc = "o_done" /\ report = "summary"

\* the records this run has appended to the combined output
RunPart == (runStart + 1)..Len(combined)

\* the complete framed entries among them (the body is a frame's last write)
Frames == Cardinality({i \in RunPart : combined[i].kind = "body"})

\* the outcome of the current video as its own collaborators and the disk
\* at the start of the run decide it, whatever happened to the other videos
ExpectedOutcome ==
    IF scen.fault = "title" THEN "error"
    ELSE IF Filename(Cur) \in DOMAIN disk0 THEN "skipped"
    ELSE IF scen.fault = "none" THEN "new"
    ELSE "error"

\* C1: a Failed outcome does not stop the run: the identifiers are handed to
\* the executor one by one in sequence order, each exactly once, all of them
\* by the time the run completes, and each outcome is the one the video's
\* own collaborators and its artifact's presence at the start of the run
\* decide, whether or not another video failed.
C1_FailureIsolated ==
    /\ handed = SubSeq(video_ids, 1, Len(handed))
    /\ Len(handed) = IF InVideo \/ status = "raised" THEN idx ELSE idx - 1
    /\ Returned => status = ExpectedOutcome
    /\ Completed => handed = video_ids

\* C1 witness: the first video failed and the second was then saved
C1_Witness ==
    /\ Returned /\ idx = 2 /\ status = "new"
    /\ stats.error = 1
    /\ handed = video_ids

\* C2: an adapter run that called upload_blob and was not interrupted calls
\* delete_blob exactly once, with the blob name the upload was called with,
\* whether the transcription succeeded or the upload or the operation failed.
C2_OneDelete ==
    /\ Len(uploads) <= 1 /\ Len(deletes) <= 1
    /\ (sa_pc = "sa_exited" /\ intr = 0 /\ uploads # <<>>) =>
          (Len(deletes) = 1 /\ deletes[1].blob = uploads[1])

\* C2 witness: the long-running operation failed and the blob was deleted
C2_Witness ==
    /\ sa_pc = "sa_exited" /\ intr = 0 /\ scen.fault = "sa_lro"
    /\ uploads = <<sa_blob>>
    /\ deletes = <<[blob |-> sa_blob, state |-> "sent"]>>
    /\ sa_exit = 1

\* C3: after an interrupt at any point once the upload was started, the
\* delete of the uploaded object has been sent by the time the process exits
\* (no call of the run failed: the interrupts are all that went wrong, and
\* the object is in the bucket).
C3_DeleteAfterInterrupt ==
    (/\ sa_pc = "sa_exited" /\ intr > 0 /\ uploads # <<>> /\ scen.fault = "none"
     /\ uploads[1] \in bucket
     /\ \A i \in DOMAIN deletes : deletes[i].state # "noclient") =>
        \E i \in DOMAIN deletes :
            deletes[i].blob = uploads[1] /\ deletes[i].state = "sent"

\* C4: the three counters add up to the number of identifiers processed so
\* far; the step that counts an outcome adds one to the counter of that
\* outcome and leaves the other two, and no other step changes a counter.
C4_Sum == stats.new + stats.skipped + stats.error = idx - 1

C4_Step ==
    IF pc = "o_count"
    THEN /\ status \in {"new", "skipped", "error"}
         /\ stats' = [stats EXCEPT ![status] = @ + 1]
         /\ idx' = idx + 1
    ELSE stats' = stats /\ idx' = idx

C4_Counters == []C4_Sum /\ [][C4_Step]_vars

\* C4 witness: two identifiers processed, one saved and one skipped
C4_Witness ==
    /\ pc = "o_loop" /\ idx = 3
    /\ stats = [new |-> 1, skipped |-> 1, error |-> 0]

\* C5 as stated: at the end of a run the framed entries appended by the run
\* are as many as the new counter says (here for the two strategies that
\* transcribe audio; the captions strategy behaves alike).
C5_FramesEqualNew == (Completed /\ strategy # "api") => Frames = stats.new

\* C5 amended: process_channel appends one framed entry for each Saved
\* outcome whose text is not empty and none for a Saved outcome with empty
\* text; process_videos appends one for every Saved outcome.
C5_FramesEqualNewWithText ==
    (pc = "o_loop" \/ Completed) =>
        Frames = stats.new - (IF prog = "tool" THEN savedEmpty ELSE 0)

\* C5 witness: process_channel saved two videos, one with empty text, and
\* appended one entry
C5_Witness ==
    /\ Completed /\ prog = "tool"
    /\ stats.new = 2 /\ savedEmpty = 1 /\ Frames = 1

\* C6: an identifier whose outcome is Skipped or Failed leaves the combined
\* output as it was when the identifier was handed over.
C6_NoWriteUnlessSaved ==
    (Returned /\ status \in {"skipped", "error"}) => Len(combined) = mark

C8_NoCallBeforeSkip == status = "skipped" => calls = <<>>

\* C8 amended: the one request issued before the existence check is the
\* title lookup the file name is computed from; a captions request or a
\* subprocess is issued only for a video whose artifact was not there.
C8_OnlyTitleBeforeCheck ==
    /\ status = "skipped" => calls = <<"title">>
    /\ pc = "e_check" => calls = <<"title">>
    /\ Len(calls) > 1 => Filename(Cur) \notin DOMAIN disk0

\* C8 witness: a video was skipped after its title lookup alone
C8_Witness == Returned /\ status = "skipped" /\ calls = <<"title">>

KindIndex(k) == CHOOSE n \in 1..Len(FrameKinds(prog)) : FrameKinds(prog)[n] = k

\* C9: the entries a run appends are in the order of their identifiers in
\* the resolved sequence, and the writes of one entry are contiguous and in
\* the order of the frame.
C9_EntriesInOrder ==
    /\ \A i, j \in RunPart : i < j => combined[i].vid <= combined[j].vid
    /\ \A i \in RunPart :
         combined[i].vid >= 1 =>
            IF i - 1 \in RunPart /\ combined[i - 1].vid = combined[i].vid
            THEN KindIndex(combined[i].kind) = KindIndex(combined[i - 1].kind) + 1
            ELSE combined[i].kind = "file"

\* C9 witness: the entries of the first and of the second video, in order
C9_Witness ==
    /\ Completed /\ Frames = 2
    /\ combined[Len(combined)] = [kind |-> "body", vid |-> 2]
    /\ \E i \in RunPart : combined[i] = [kind |-> "body", vid |-> 1]

\* C10: under the captions strategy a captions call that raised or returned
\* no fragment ends in Failed, with no artifact written (no other call of
\* the video failed).
C10_EmptyCaptionsFail ==
    (/\ Returned /\ strategy = "api" /\ Len(calls) = 2
     /\ scen.frags = <<>> /\ scen.fault \in {"none", "captions"}) =>
        (status = "error" /\ ~Exists(filename))

\* the loop over the identifiers has been entered in this run
InLoop == pc = "o_loop" \/ InVideo \/ Completed \/ status = "raised"

\* C11: once the combined output is open and the loop over the identifiers
\* runs, this run's part of the combined output begins with the session
\* banner, and the banner's lines occur nowhere else in it: one banner,
\* before any framed entry of the run.
C11_OneBanner ==
    InLoop =>
        /\ Len(combined) >= runStart + Len(BannerKinds)
        /\ \A k \in 1..Len(BannerKinds) : combined[runStart + k].kind = BannerKinds[k]
        /\ \A i \in RunPart :
              i > runStart + Len(BannerKinds) =>
                  combined[i].kind \notin {BannerKinds[k] : k \in 1..Len(BannerKinds)}

\* C12: a channel run only ever appends to the combined output: every step
\* leaves what the file held as a prefix of what it holds afterwards, so the
\* content before a run is a prefix of the content at every later point,
\* over consecutive runs too.
C12_AppendOnly ==
    [][/\ Len(combined') >= Len(combined)
       /\ SubSeq(combined', 1, Len(combined)) = combined]_vars

\* C12 witness: a second run has appended after what the first run left
C12_Witness ==
    /\ run = 2 /\ runStart > 0 /\ Len(combined) > runStart
    /\ combined[1].vid = 1 /\ combined[Len(combined)].kind = "body"

\* the per-video artifacts in the working directory before the recombine
Artifacts == {f \in DOMAIN disk0 : IsTranscriptName(f) /\ f # output_file}

\* the names of the framed entries of the combined output, in file order
RECURSIVE EntryNames(_)
EntryNames(c) ==
    IF c = <<>> THEN <<>>
    ELSE IF Head(c).kind = "episode" THEN <<Head(c).name>> \o EntryNames(Tail(c))
    ELSE EntryNames(Tail(c))

\* C13: recombine-mode run with no per-video artifact in the working
\* directory leaves the combined output as it was (absent, or present with
\* its content) and ends reporting that no files were found.
C13_NothingToCombine ==
    (prog = "combine" /\ Artifacts = {}) =>
        /\ combinedExists = (runStart > 0)
        /\ Len(combined) = runStart
        /\ \A i \in 1..Len(combined) : combined[i].kind = "old"
        /\ pc \in {"c_list", "c_done"}
        /\ pc = "c_done" => report = "no_files"

\* C19: recombine-mode run with at least one artifact, every read and write
\* succeeding, leaves a combined output holding exactly one framed entry per
\* artifact, in lexicographic order of the names, and nothing it held before.
C19_OneEntryPerArtifact ==
    (/\ prog = "combine" /\ pc = "c_done" /\ Artifacts # {}
     /\ scen.fault = "none") =>
        /\ report = "combined"
        /\ EntryNames(combined) = sorted(Artifacts)
        /\ \A i \in 1..Len(combined) : combined[i].kind # "old"

\* C14: a channel run over a non-empty identifier sequence that has opened
\* the combined output and entered its loop eventually reports the final
\* counts; a run over an empty sequence never reports a summary.
C14_SummaryReported ==
    /\ (pc = "o_loop" /\ video_ids # <<>>) ~> (report = "summary")
    /\ [](video_ids = <<>> => report # "summary")

\* the page requests issued so far
PageRequests == Cardinality({i \in 1..Len(calls) : calls[i] = "playlistItems.list"})

\* C15: the resolver's sequence is the in-order concatenation of the
\* identifiers of the pages fetched successfully; it returns after the first
\* page without a continuation token or at the first failed page fetch, whose
\* identifiers are not included, and requests no page after either; when the
\* channel cannot be resolved it returns the empty sequence, no page requested.
C15_ResolvedSequence ==
    /\ pc \in {"r_page", "r_done"} => video_ids = Concat(handed)
    /\ \A i \in 1..Len(handed) : i < Len(handed) => handed[i].token
    /\ pc = "r_page" =>
          /\ PageRequests = Len(handed)
          /\ handed # <<>> => handed[Len(handed)].token
    /\ pc = "r_done" =>
          CASE scen.fault = "channel" -> video_ids = <<>> /\ PageRequests = 0
            [] scen.fault = "page" -> PageRequests = Len(handed) + 1
            [] OTHER -> /\ PageRequests = Len(handed)
                        /\ handed # <<>> /\ ~handed[Len(handed)].token

\* C15 witness: two pages were fetched, the third request failed, and the
\* identifiers of the two pages are returned
C15_Witness ==
    /\ pc = "r_done" /\ scen.fault = "page"
    /\ Len(handed) = 2 /\ PageRequests = 3
    /\ Len(handed[1].ids) = 2 /\ Len(handed[2].ids) = 1
    /\ video_ids = <<VidOf(1), VidOf(2), VidOf(3)>>

\* the characters of [a-z0-9_-] among those of the model
SlugChars == {"a", "b", "c", "d", "1", "_", "-"}

\* C16: the slug of every title holds only characters of [a-z0-9_-] and has
\* no underscore at either end.
C16_SlugAlphabet ==
    pc = "s_done" =>
        /\ \A i \in 1..Len(filename) : filename[i] \in SlugChars
        /\ filename # <<>> => (filename[1] # "_" /\ filename[Len(filename)] # "_")

\* a character slugify keeps as it is, up to its case
IsKept(c) == c \in {"A", "b", "1", "-"}

\* C20: a run made of colons only, between two retained characters, becomes
\* one underscore, as a run of white space does: "A:b" gives "a_b".
C20_ColonRun ==
    (/\ pc = "s_done" /\ Len(text) = 3 /\ text[2] = ":"
     /\ IsKept(text[1]) /\ IsKept(text[3])) =>
        filename = <<LowerChar(text[1]), "_", LowerChar(text[3])>>

\* the call of the executor for the current identifier is over
CallOver == pc \in {"o_count", "o_crashed"} /\ handed # <<>> /\ Len(handed) = idx

\* C17: every call of the executor ends by returning one of new, skipped
\* and error; no exception leaves it.
C17_AlwaysClassified ==
    /\ status # "raised"
    /\ CallOver => status \in {"new", "skipped", "error"}

\* C18: under the cloud strategy, when the adapter's upload or its remote
\* transcription failed, the adapter has called the delete of the blob it
\* named by the time it exits, and the executor's outcome is error.
C18_StagingFailure ==
    (strategy = "gcs" /\ scen.fault \in {"sa_creds", "sa_upload", "sa_lro"}) =>
        /\ sa_pc = "sa_exited" =>
              (Len(deletes) = 1 /\ deletes[1].blob = sa_blob /\ sa_exit # 0)
        /\ CallOver => status = "error"

\* C21: when the executor returns error for a video whose artifact was not
\* on disk when the run began, no file named derived_filename is on disk (the
\* combined output's writes succeeding and the collaborator having returned
\* text: the failure is the strategy's own).
C21_NoArtifactOnFailure ==
    (/\ Returned /\ status = "error" /\ scen.fault # "frame" /\ scen.frags # <<>>
     /\ filename # NoFile /\ filename \notin DOMAIN disk0) =>
        ~Exists(filename)

\* C22: recombine-mode never takes the combined output for an input: the
\* files it selects never include output_file, and no entry of the rewritten
\* output has output_file for its source.
C22_OutputNotAnInput ==
    prog = "combine" =>
        /\ output_file \notin existing_files
        /\ \A i \in 1..Len(combined) :
              combined[i].kind = "episode" => combined[i].name # output_file

\* C23: when the executor returns from an offline-strategy or cloud-strategy
\* call, whatever the outcome, neither the audio file of the identifier nor
\* any other sibling output of the tools for it is on disk.
C23_NoAudioLeft ==
    (Returned /\ strategy \in {"whisper", "gcs"}) =>
        /\ ~Exists(AudioName(CurVid))
        /\ SiblingNames(CurVid) \cap DOMAIN disk = {}
        /\ ~Exists(WhisperName(CurVid))

====
